---------------------------- MODULE Spec2Model ----------------------------
(***************************************************************************)
(* SecPR-Benchmark: ground-truth extraction (phase1.js), AI evaluation     *)
(* (phase2.js) and static-analyzer evaluation (phase3.js) over one SQLite  *)
(* database, with the message classifier of config/security-patterns.js.  *)
(*                                                                         *)
(* Strings are tuples of one-character strings, so that lower-casing,      *)
(* prefix tests, trimming and lexicographic sorting are computed.          *)
(***************************************************************************)
EXTENDS Integers, Sequences, FiniteSets, TLC

VARIABLES
    fileDiff,        \* phase1.js:128 the per-file unified diff, split into lines
    changedLines,    \* phase1.js:134 the Set of recorded line numbers
    scanned,         \* the diff scan of phase1.js:136-146 has run
    blame,           \* phase1.js:150 the attribution listing, split into lines
    fixHash,         \* phase1.js:163 commit.hash of the fixing commit
    originalCommit,  \* phase1.js:168 the resolved origin (<<>> when undefined)
    resolved,        \* the origin resolution of phase1.js:159-168 has run
    commitLog,       \* phase1.js:249 git.log(): the history of the mined repository
    running,         \* the script that is running: "none", "phase1", "phase2", "phase3"
    runs,            \* number of scripts started so far
    ground_truth,    \* phase1.js:36-46 the rows of table ground_truth
    p1,              \* phase1.js:250-254 position of main in targetCommits
    p1Last,          \* what the last call of processFixingCommit did
    workTree,        \* the revision the working tree of the mined repository is at
    ai_results,      \* phase2.js:22-36 the rows of table ai_results
    p2,              \* phase2.js:158-285 position of processCommits in its loops
    p2Last,          \* the last ground-truth entry evaluated, with what was observed
    sonarqube_results, \* phase3.js:22-35 the rows of table sonarqube_results
    p3,              \* phase3.js:214-313 position of processCommits in its loop, with
                     \* vulnEntries and sonarResults of the iteration classified last
    detector,        \* what the detectors answer, where their outputs are the same
                     \* from one run to the next: phase2.js:165-203 for each
                     \* record, phase3.js:244-260 for each original commit
    main,            \* main.js:43-53 position of the pipeline, the scripts it
                     \* started, the exit statuses it met and its own exit code
    fetch            \* phase3.js:72-103 fetchSonarIssuesREST: issues, page and
                     \* total, the requests made and the response met last

diffVars == <<fileDiff, changedLines, scanned>>
originVars == <<blame, fixHash, originalCommit, resolved>>
phase2Vars == <<ai_results, p2, p2Last>>
phase3Vars == <<sonarqube_results, p3>>
oracleVars == <<detector>>
mainVars == <<main>>
fetchVars == <<fetch>>
pureVars == <<diffVars, originVars, oracleVars, mainVars, fetchVars>>
pipelineVars == <<commitLog, running, runs, ground_truth, p1, p1Last, workTree,
                  ai_results, p2, p2Last, sonarqube_results, p3>>

-----------------------------------------------------------------------------
(* Strings *)

UpperLetters == <<"A","B","C","D","E","F","G","H","I","J","K","L","M",
                  "N","O","P","Q","R","S","T","U","V","W","X","Y","Z">>
LowerLetters == <<"a","b","c","d","e","f","g","h","i","j","k","l","m",
                  "n","o","p","q","r","s","t","u","v","w","x","y","z">>
Digits == {"0","1","2","3","4","5","6","7","8","9"}
Whitespace == {" ", "\t", "\n"}

IndexIn(t, c) == CHOOSE i \in 1..Len(t) : t[i] = c
IsIn(t, c) == \E i \in 1..Len(t) : t[i] = c

ToLowerChar(c) == IF IsIn(UpperLetters, c) THEN LowerLetters[IndexIn(UpperLetters, c)] ELSE c
ToUpperChar(c) == IF IsIn(LowerLetters, c) THEN UpperLetters[IndexIn(LowerLetters, c)] ELSE c

toLowerCase(s) == [i \in 1..Len(s) |-> ToLowerChar(s[i])]
toUpperCase(s) == [i \in 1..Len(s) |-> ToUpperChar(s[i])]

startsWith(s, p) == Len(s) >= Len(p) /\ SubSeq(s, 1, Len(p)) = p

\* String.prototype.replace(pattern, "") with a string pattern: the first
\* occurrence only.
replaceFirst(s, p) ==
    LET occ == {i \in 1..(Len(s) - Len(p) + 1) : SubSeq(s, i, i + Len(p) - 1) = p}
    IN IF occ = {} THEN s
       ELSE LET i == CHOOSE j \in occ : \A k \in occ : j <= k
            IN SubSeq(s, 1, i - 1) \o SubSeq(s, i + Len(p), Len(s))

trim(s) ==
    LET keep == {i \in 1..Len(s) : s[i] \notin Whitespace}
    IN IF keep = {} THEN <<>>
       ELSE SubSeq(s, CHOOSE i \in keep : \A k \in keep : i <= k,
                      CHOOSE i \in keep : \A k \in keep : i >= k)

\* The longest prefix of s made of characters of set cs.
PrefixIn(s, cs) ==
    LET stop == {i \in 1..Len(s) : s[i] \notin cs}
    IN IF stop = {} THEN s
       ELSE SubSeq(s, 1, (CHOOSE i \in stop : \A k \in stop : i <= k) - 1)

\* UTF-16 code-unit order of the characters a commit identifier is made of.
CodeOrder == <<"0","1","2","3","4","5","6","7","8","9","a","b","c","d","e","f">>
HexChars == {CodeOrder[i] : i \in 1..Len(CodeOrder)}
CodeUnit(c) == IndexIn(CodeOrder, c)

\* a < b in the order Array.prototype.sort() uses without a comparator.
LexLess(a, b) ==
    \E i \in 1..(Len(b)) :
        /\ \A k \in 1..(i - 1) : k <= Len(a) /\ a[k] = b[k]
        /\ \/ i = Len(a) + 1
           \/ i <= Len(a) /\ CodeUnit(a[i]) < CodeUnit(b[i])

-----------------------------------------------------------------------------
(* phase1.js: the diff scan of processFixingCommit *)

\* A diff line: text is the beginning of the line (what startsWith looks at),
\* m tells whether the hunk-header pattern of line 139 matches the line, and
\* c is then parseInt of its capture group (the post-image start).
DiffLine(text, m, c) == [text |-> text, m |-> m, c |-> c]
TextLine(text) == DiffLine(text, FALSE, 0)
HunkHeader(c) == DiffLine(<<"@","@"," ","-">>, TRUE, c)

\* One iteration of the loop of phase1.js:137-146.
ScanLine(st, line) ==
    IF startsWith(line.text, <<"@","@">>)
    THEN IF line.m THEN [st EXCEPT !.currentLine = line.c] ELSE st
    ELSE IF startsWith(line.text, <<"+">>) /\ ~startsWith(line.text, <<"+","+","+">>)
    THEN [currentLine |-> st.currentLine + 1,
          changedLines |-> st.changedLines \cup {st.currentLine}]
    ELSE IF ~startsWith(line.text, <<"d","i","f","f">>)
    THEN [st EXCEPT !.currentLine = st.currentLine + 1]
    ELSE st

RECURSIVE ScanFrom(_, _, _)
ScanFrom(st, lines, i) ==
    IF i > Len(lines) THEN st ELSE ScanFrom(ScanLine(st, lines[i]), lines, i + 1)

\* phase1.js:134-146: the Set changedLines after the loop.
ScanDiff(lines) ==
    ScanFrom([currentLine |-> 0, changedLines |-> {}], lines, 1).changedLines

-----------------------------------------------------------------------------
(* phase1.js: the origin resolution of processFixingCommit *)

\* phase1.js:162 line.match(/^([a-f0-9]+)/): the capture, <<>> for no match.
BlameMatch(line) == PrefixIn(line, HexChars)

\* The Set commitHashes with the identifier of the fixing commit kept.
RECURSIVE CommitHashes_KeepsFix(_, _, _, _)
CommitHashes_KeepsFix(lines, hash, i, acc) ==
    IF i > Len(lines) THEN acc
    ELSE LET m == BlameMatch(lines[i])
         IN CommitHashes_KeepsFix(lines, hash, i + 1,
                IF m # <<>> /\ ~IsIn(acc, m) THEN Append(acc, m) ELSE acc)

\* phase1.js:159-166: the Set commitHashes in insertion order.
RECURSIVE CommitHashes(_, _, _, _)
CommitHashes(lines, hash, i, acc) ==
    IF i > Len(lines) THEN acc
    ELSE LET m == BlameMatch(lines[i])
         IN CommitHashes(lines, hash, i + 1,
                IF m # <<>> /\ m # hash /\ ~IsIn(acc, m) THEN Append(acc, m) ELSE acc)

\* Array.prototype.sort() without a comparator, as an insertion sort.
RECURSIVE InsertSorted(_, _)
InsertSorted(sorted, x) ==
    IF sorted = <<>> THEN <<x>>
    ELSE IF LexLess(x, Head(sorted)) THEN <<x>> \o sorted
    ELSE <<Head(sorted)>> \o InsertSorted(Tail(sorted), x)

RECURSIVE SortFrom(_, _, _)
SortFrom(arr, i, acc) ==
    IF i > Len(arr) THEN acc ELSE SortFrom(arr, i + 1, InsertSorted(acc, arr[i]))

sort(arr) == SortFrom(arr, 1, <<>>)

\* Array.prototype.pop(): the last element, <<>> standing for undefined.
pop(arr) == IF arr = <<>> THEN <<>> ELSE arr[Len(arr)]

\* The origin taken without sorting: the identifier inserted last.
ResolveOrigin_Unsorted(lines, hash) == pop(CommitHashes(lines, hash, 1, <<>>))

\* phase1.js:159-168: the origin of a file, <<>> when none was found.
ResolveOrigin(lines, hash) == pop(sort(CommitHashes(lines, hash, 1, <<>>)))

-----------------------------------------------------------------------------
(* config/security-patterns.js: the message classifier *)

CwePrefix == <<"C","W","E","-">>
UNKNOWN == <<"U","N","K","N","O","W","N">>

\* A commit message is a sequence of phrases. A phrase is text the identifier
\* patterns are run on (k = "text"), a phrase one of the keyword patterns of
\* lines 30-38 matches (k = "keyword"), or a phrase pattern number i of the
\* table of lines 39-54 matches (k = "vuln").
Phrase(k, str, i) == [k |-> k, s |-> str, i |-> i]

\* security-patterns.js:39-54: cwe of each entry, and pattern.source without
\* the characters line 94 removes.
vulnerabilityTypes == <<
    [cwe |-> CwePrefix \o <<"8","9">>, label |-> ":SQLNoSQLsinjection"],
    [cwe |-> CwePrefix \o <<"7","9">>, label |-> "XSScross-ssitesscripting"],
    [cwe |-> CwePrefix \o <<"3","5","2">>, label |-> "CSRFcross-ssitesrequestsforgery"],
    [cwe |-> CwePrefix \o <<"1","2","0">>, label |-> "buffersoverflow"],
    [cwe |-> CwePrefix \o <<"3","6","2">>, label |-> "racescondition"],
    [cwe |-> CwePrefix \o <<"2","2">>, label |-> "pathstraversal"],
    [cwe |-> CwePrefix \o <<"7","8">>, label |-> "commandsinjection"],
    [cwe |-> CwePrefix \o <<"5","0","2">>, label |-> "deserialization"],
    [cwe |-> CwePrefix \o <<"2","8","7">>, label |-> "authenticationsbypass"],
    [cwe |-> CwePrefix \o <<"2","8","5">>, label |-> "authorizationsbypass"],
    [cwe |-> CwePrefix \o <<"5","4","8">>, label |-> "directoryslisting"],
    [cwe |-> CwePrefix \o <<"7","9","8">>, label |-> "hardcodedspasswordcredential"],
    [cwe |-> CwePrefix \o <<"6","1","4">>, label |-> "insecurescookie"],
    [cwe |-> CwePrefix \o <<"6","0","1">>, label |-> "unvalidatedsredirect"] >>

AddUnique(seq, x) == IF IsIn(seq, x) THEN seq ELSE Append(seq, x)

\* security-patterns.js:15 /CWE-(\d+)/gi on one phrase: the capture group of
\* the first match, <<>> for no match.
CweCapture(str) ==
    LET l == toLowerCase(str)
        occ == {i \in 1..(Len(l) - 4) :
                   SubSeq(l, i, i + 3) = <<"c","w","e","-">> /\ l[i + 4] \in Digits}
    IN IF occ = {} THEN <<>>
       ELSE LET i == CHOOSE j \in occ : \A k \in occ : j <= k
            IN PrefixIn(SubSeq(str, i + 4, Len(str)), Digits)

\* security-patterns.js:21,25 /OWASP[-\s]?A[1-9][0-9]?/gi (letter "a") and
\* /OWASP[-\s]?M[1-9][0-9]?/gi (letter "m") at the start of one phrase:
\* match[0], <<>> for no match.
OwaspMatch(str, letter) ==
    LET l == toLowerCase(str)
        sep == IF Len(l) >= 6 /\ l[6] \in ({"-"} \cup Whitespace) THEN 1 ELSE 0
        at == 6 + sep
    IN IF /\ startsWith(l, <<"o","w","a","s","p">>)
          /\ Len(l) >= at + 1
          /\ l[at] = letter
          /\ l[at + 1] \in (Digits \ {"0"})
       THEN SubSeq(str, 1, IF Len(l) >= at + 2 /\ l[at + 2] \in Digits THEN at + 2 ELSE at + 1)
       ELSE <<>>

\* security-patterns.js:70-74
RECURSIVE CweMatches(_, _, _)
CweMatches(message, i, acc) ==
    IF i > Len(message) THEN acc
    ELSE LET d == IF message[i].k = "text" THEN CweCapture(message[i].s) ELSE <<>>
         IN CweMatches(message, i + 1, IF d # <<>> THEN AddUnique(acc, CwePrefix \o d) ELSE acc)

\* security-patterns.js:76-82, for one of the two patterns
RECURSIVE OwaspMatches(_, _, _, _)
OwaspMatches(message, letter, i, acc) ==
    IF i > Len(message) THEN acc
    ELSE LET m == IF message[i].k = "text" THEN OwaspMatch(message[i].s, letter) ELSE <<>>
         IN OwaspMatches(message, letter, i + 1,
                IF m # <<>> THEN AddUnique(acc, toUpperCase(m)) ELSE acc)

VulnTypeMatches(message, t) == \E i \in 1..Len(message) : message[i].k = "vuln" /\ message[i].i = t

\* security-patterns.js:90-98: cweIds and vulnerabilityTypes after the table
RECURSIVE VulnTypes(_, _, _)
VulnTypes(message, t, acc) ==
    IF t > Len(vulnerabilityTypes) THEN acc
    ELSE VulnTypes(message, t + 1,
            IF VulnTypeMatches(message, t)
            THEN [cweIds |-> AddUnique(acc.cweIds, vulnerabilityTypes[t].cwe),
                  types |-> AddUnique(acc.types, vulnerabilityTypes[t].label)]
            ELSE acc)

\* /^CWE-\d+$/i
IsCweId(str) ==
    /\ Len(str) >= 5
    /\ toLowerCase(SubSeq(str, 1, 4)) = <<"c","w","e","-">>
    /\ \A i \in 5..Len(str) : str[i] \in Digits

\* security-patterns.js:121-143. The reply of the chat completion is ok with
\* its content, or the call threw.
inferCWEWithGPT(reply) ==
    IF ~reply.ok THEN UNKNOWN
    ELSE LET result == trim(reply.content)
         IN IF IsCweId(result) THEN toUpperCase(result) ELSE UNKNOWN

\* security-patterns.js:64-100: the result after the four groups of patterns.
matchPatterns(message) ==
    LET ids == OwaspMatches(message, "m", 1, OwaspMatches(message, "a", 1, CweMatches(message, 1, <<>>)))
        vt == VulnTypes(message, 1, [cweIds |-> ids, types |-> <<>>])
    IN [cweIds |-> vt.cweIds,
        securityRelated |-> vt.cweIds # <<>> \/ \E i \in 1..Len(message) : message[i].k = "keyword",
        vulnerabilityTypes |-> vt.types]

\* security-patterns.js:102: whether the fallback inference is called.
FallbackCalled(result) == Len(result.cweIds) = 0 /\ result.securityRelated

\* The classifier with every answer of the fallback pushed, UNKNOWN included.
extractSecurityInfo_PushesUnknown(message, reply) ==
    LET result == matchPatterns(message)
    IN IF FallbackCalled(result)
       THEN [result EXCEPT !.cweIds = <<inferCWEWithGPT(reply)>>]
       ELSE result

\* The classifier taking only the keywords for security indicators.
extractSecurityInfo_KeywordsOnly(message, reply) ==
    LET result == matchPatterns(message)
        related == \E i \in 1..Len(message) : message[i].k = "keyword"
    IN [result EXCEPT !.securityRelated = related]

\* security-patterns.js:63-114
extractSecurityInfo(message, reply) ==
    LET result == matchPatterns(message)
    IN IF FallbackCalled(result) /\ inferCWEWithGPT(reply) # UNKNOWN
       THEN [result EXCEPT !.cweIds = <<inferCWEWithGPT(reply)>>]
       ELSE result

-----------------------------------------------------------------------------
(* phase1.js: the ground-truth extraction *)

\* A row of ground_truth (phase1.js:36-46) without the two message columns
\* and created_at, which no phase reads back.
GtRow(id, file, cwe, fix, orig, type) ==
    [vulnerability_id |-> id, file_path |-> file, cwe_id |-> cwe,
     fix_commit_hash |-> fix, original_commit_hash |-> orig, vulnerability_type |-> type]

\* phase1.js:37: vulnerability_id TEXT PRIMARY KEY
GtKey(row) == row.vulnerability_id

\* phase1.js:184-190 INSERT OR REPLACE INTO ground_truth
InsertOrReplaceGt(table, row) == {r \in table : GtKey(r) # GtKey(row)} \cup {row}

\* A lookup whose answer is not used.
findPRForCommit_NoneFound(lookup) == <<>>

\* phase1.js:86-98: the number of the first associated pull request, <<>>
\* for null (no pull request, or the lookup threw).
findPRForCommit(lookup) == IF lookup.ok THEN lookup.number ELSE <<>>

CommitPrefix == <<"c","o","m","m","i","t","-">>

\* The answer of the pull-request lookup of one file, when the iteration
\* reached phase1.js:181.
NotAsked == [called |-> FALSE, ok |-> FALSE, number |-> <<>>]
Asked(lookup) == [called |-> TRUE, ok |-> lookup.ok, number |-> lookup.number]

\* phase1.js:118-217: one iteration of the loop over changedFiles. fail names
\* the call of the iteration that throws ("none" when none does), lookup is
\* the answer of the pull-request lookup.
ProcessFile(commit, f, info, fail, lookup) ==
    LET Stop(outcome) == [outcome |-> outcome, rows |-> <<>>, lookup |-> NotAsked]
    IN
    IF fail \in {"ls-tree", "diff"} THEN Stop("error")
    ELSE IF ScanDiff(f.fileDiff) = {} THEN Stop("no changed lines")
    ELSE IF fail = "blame" THEN Stop("error")
    ELSE LET orig == ResolveOrigin(f.blame, commit.hash)
             prId == findPRForCommit(lookup)
             identifier == IF prId # <<>> THEN prId ELSE CommitPrefix \o orig
         IN IF orig = <<>> THEN Stop("no origin")
            ELSE IF fail \in {"show", "remote"} THEN Stop("error")
            ELSE IF Len(info.cweIds) = 0
            THEN [outcome |-> "no CWE", rows |-> <<>>, lookup |-> Asked(lookup)]
            ELSE [outcome |-> "processed", lookup |-> Asked(lookup),
                  rows |-> [k \in 1..Len(info.cweIds) |->
                              GtRow(identifier, f.path, info.cweIds[k], commit.hash,
                                    orig, info.vulnerabilityTypes)]]

RECURSIVE RunAll(_, _, _)
RunAll(table, rows, k) ==
    IF k > Len(rows) THEN table ELSE RunAll(InsertOrReplaceGt(table, rows[k]), rows, k + 1)

\* phase1.js:117-218: the loop over changedFiles; acc holds the table, the
\* outcome of each file and the rows given to stmt.run so far.
RECURSIVE ProcessFiles(_, _, _, _, _, _)
ProcessFiles(commit, info, fails, lookups, k, acc) ==
    IF k > Len(commit.files) THEN acc
    ELSE LET r == ProcessFile(commit, commit.files[k], info, fails[k], lookups[k])
         IN ProcessFiles(commit, info, fails, lookups, k + 1,
                [table |-> RunAll(acc.table, r.rows, 1),
                 outcomes |-> Append(acc.outcomes, r.outcome),
                 rows |-> acc.rows \o r.rows])

-----------------------------------------------------------------------------
(* phase2.js: the AI evaluation *)

\* phase2.js:55-57
normalizeCwe(cwe) == trim(replaceFirst(toLowerCase(cwe), <<"c","w","e","-">>))

\* A text built from a template literal: the fixed text and the values put in.
Details(text, args) == [text |-> text, args |-> args]

\* Column detected_line_numbers: NULL, or the JSON text of an array.
Null == [null |-> TRUE, json |-> <<>>]
Json(array) == [null |-> FALSE, json |-> array]

\* The values of one stmt.run of phase2.js:150-156.
AiRow(gt, cwe, result, details, lines) ==
    [vulnerability_id |-> gt.vulnerability_id, file_path |-> gt.file_path, cwe_id |-> cwe,
     fix_commit_hash |-> gt.fix_commit_hash, original_commit_hash |-> gt.original_commit_hash,
     vulnerability_type |-> gt.vulnerability_type,
     evaluation_result |-> result, evaluation_details |-> details,
     detected_line_numbers |-> lines]

\* A key that leaves the identifier and the weakness class out.
ResultKey_FileOnly(row) == <<row.file_path>>

\* phase2.js:34, phase3.js:33: PRIMARY KEY (vulnerability_id, file_path, cwe_id)
ResultKey(row) == <<row.vulnerability_id, row.file_path, row.cwe_id>>

\* phase2.js:151, phase3.js:207 INSERT OR REPLACE
InsertOrReplace(table, row) == {r \in table : ResultKey(r) # ResultKey(row)} \cup {row}

\* String.prototype.includes on an error message, a message being its words.
includes(message, words) ==
    \E i \in 1..(Len(message) - Len(words) + 1) : SubSeq(message, i, i + Len(words) - 1) = words

\* phase2.js:65-120 analyzeFileWithAI. The completion is ok with the parsed
\* vulnerabilities, or the call (or JSON.parse) threw err. The result is
\* what the function returns, or thrown with the error it rethrows.
analyzeFileWithAI(completion) ==
    IF completion.ok
    THEN [thrown |-> FALSE, skippedDueToContext |-> FALSE,
          vulnerabilities |-> completion.vulnerabilities, message |-> <<>>]
    ELSE IF \/ completion.err.code = "context_length_exceeded"
            \/ includes(completion.err.message, <<"maximum", "context", "length">>)
            \/ includes(completion.err.message, <<"tokens">>)
    THEN [thrown |-> FALSE, skippedDueToContext |-> TRUE, vulnerabilities |-> <<>>, message |-> <<>>]
    ELSE [thrown |-> TRUE, skippedDueToContext |-> FALSE, vulnerabilities |-> <<>>,
          message |-> completion.err.message]

\* Array.prototype.find: the index of the first element, 0 for undefined.
FindMatch(vulnerabilities, normalizedGtCWE) ==
    LET hits == {i \in 1..Len(vulnerabilities) :
                    normalizeCwe(vulnerabilities[i].cwe_id) = normalizedGtCWE}
    IN IF hits = {} THEN 0 ELSE CHOOSE i \in hits : \A k \in hits : i <= k

\* The classification taking the last finding as the one that matches, or
\* as the representative mismatch.
Classify_LastFinding(gt, vulnerabilities) ==
    LET hits == {i \in 1..Len(vulnerabilities) :
                    normalizeCwe(vulnerabilities[i].cwe_id) = normalizeCwe(gt.cwe_id)}
    IN IF hits # {}
       THEN AiRow(gt, gt.cwe_id, "TP", Details("Correctly detected vulnerability (CWE %)", <<gt.cwe_id>>),
                  Json(vulnerabilities[CHOOSE i \in hits : \A k \in hits : i >= k].line_numbers))
       ELSE IF Len(vulnerabilities) > 0
       THEN LET fpVuln == vulnerabilities[Len(vulnerabilities)]
            IN AiRow(gt, fpVuln.cwe_id, "FP",
                     Details("False positive: AI reported %, expected %", <<fpVuln.cwe_id, gt.cwe_id>>),
                     Json(fpVuln.line_numbers))
       ELSE AiRow(gt, gt.cwe_id, "FN", Details("Missed vulnerability: CWE %", <<gt.cwe_id>>), Null)

\* phase2.js:236-283: the row written for a list of vulnerabilities.
Classify(gt, vulnerabilities) ==
    LET aiMatch == FindMatch(vulnerabilities, normalizeCwe(gt.cwe_id))
    IN IF aiMatch # 0
       THEN AiRow(gt, gt.cwe_id, "TP", Details("Correctly detected vulnerability (CWE %)", <<gt.cwe_id>>),
                  Json(vulnerabilities[aiMatch].line_numbers))
       ELSE IF Len(vulnerabilities) > 0
       THEN LET fpVuln == vulnerabilities[1]
            IN AiRow(gt, fpVuln.cwe_id, "FP",
                     Details("False positive: AI reported %, expected %", <<fpVuln.cwe_id, gt.cwe_id>>),
                     Json(fpVuln.line_numbers))
       ELSE AiRow(gt, gt.cwe_id, "FN", Details("Missed vulnerability: CWE %", <<gt.cwe_id>>), Null)

Skipped(gt, details) == AiRow(gt, gt.cwe_id, "SKIPPED", details, Null)

\* The evaluation that takes the context-limit marker for an empty answer.
EvaluateEntry_MarkerIgnored(gt, access, read, completion) ==
    IF ~access THEN Skipped(gt, Details("Skipped: file not found in original commit.", <<>>))
    ELSE IF ~read THEN Skipped(gt, Details("Skipped: failed to read file content.", <<>>))
    ELSE LET aiResults == analyzeFileWithAI(completion)
         IN IF aiResults.thrown
            THEN Skipped(gt, Details("Skipped: AI error - %", <<aiResults.message>>))
            ELSE Classify(gt, aiResults.vulnerabilities)

\* phase2.js:162-284: the body of the loop over gtEntries, as the row it
\* writes. access and read tell whether fs.access and fs.readFile succeed.
EvaluateEntry(gt, access, read, completion) ==
    IF ~access THEN Skipped(gt, Details("Skipped: file not found in original commit.", <<>>))
    ELSE IF ~read THEN Skipped(gt, Details("Skipped: failed to read file content.", <<>>))
    ELSE LET aiResults == analyzeFileWithAI(completion)
         IN IF aiResults.thrown
            THEN Skipped(gt, Details("Skipped: AI error - %", <<aiResults.message>>))
            ELSE IF aiResults.skippedDueToContext
            THEN Skipped(gt, Details("Skipped due to context length exceeding GPT limits.", <<>>))
            ELSE Classify(gt, aiResults.vulnerabilities)

-----------------------------------------------------------------------------
(* phase3.js: the static-analyzer evaluation *)

\* The values of one stmt.run of phase3.js:206-212.
SonarRow(gt, result, detail) ==
    [vulnerability_id |-> gt.vulnerability_id, file_path |-> gt.file_path, cwe_id |-> gt.cwe_id,
     fix_commit_hash |-> gt.fix_commit_hash, original_commit_hash |-> gt.original_commit_hash,
     vulnerability_type |-> gt.vulnerability_type,
     evaluation_result |-> result, evaluation_details |-> detail]

\* phase3.js:110-128
extractCWEWithGPT(message, reply) ==
    IF message = <<>> THEN UNKNOWN
    ELSE IF ~reply.ok THEN UNKNOWN
    ELSE LET answer == trim(reply.content)
         IN IF IsCweId(answer) THEN toUpperCase(answer) ELSE UNKNOWN

\* phase3.js:257-261: the cwe of an issue, <<>> standing for no cwe field.
IssueCwe(issue, reply) ==
    IF issue.cwe = <<>> \/ issue.cwe = UNKNOWN
    THEN extractCWEWithGPT(issue.message, reply)
    ELSE issue.cwe

\* phase3.js:253-266: the Set allDetectedCWEs in insertion order.
RECURSIVE allDetectedCWEs(_, _, _, _)
allDetectedCWEs(sonarResults, replies, i, acc) ==
    IF i > Len(sonarResults) THEN acc
    ELSE allDetectedCWEs(sonarResults, replies, i + 1,
            AddUnique(acc, IssueCwe(sonarResults[i], replies[i])))

\* phase3.js:273-309: the row written for one entry of the commit.
SonarVerdict(gt, detected) ==
    IF Len(detected) = 0 THEN SonarRow(gt, "FN", Details("No issues reported in scan.", <<>>))
    ELSE IF IsIn(detected, gt.cwe_id)
    THEN SonarRow(gt, "TP", Details("Detected expected CWE %", <<gt.cwe_id>>))
    ELSE SonarRow(gt, "FP", Details("Detected unrelated CWEs: %", detected))

-----------------------------------------------------------------------------
(* Inputs of the diff scan *)

MaxHunks == 2
MaxHunkLines == 3

SeqsUpTo(S, n) == UNION {[1..k -> S] : k \in 0..n}

ContextLine == TextLine(<<" ","x">>)
AdditionLine == TextLine(<<"+","x">>)
RemovalLine == TextLine(<<"-","x">>)
\* The addition of a line whose content begins with "++", such as "++i;".
AdditionOfIncrement == TextLine(<<"+","+","+","i">>)
BodyLines == {ContextLine, AdditionLine, RemovalLine, AdditionOfIncrement}

\* "diff --git a/f b/f", "index ..", "--- a/f", "+++ b/f"
FileHeader == <<TextLine(<<"d","i","f","f">>), TextLine(<<"i","n","d","e">>),
                TextLine(<<"-","-","-"," ">>), TextLine(<<"+","+","+"," ">>)>>

HunkStarts == {1, 10, 20}
Hunks == {h \in [c : HunkStarts, body : SeqsUpTo(BodyLines, MaxHunkLines)] : h.body # <<>>}

PostLen(body) == Cardinality({i \in 1..Len(body) : body[i].text[1] # "-"})

\* Hunks follow each other in the post-image without overlapping.
WellFormed(hs) ==
    \A k \in 1..(Len(hs) - 1) : hs[k + 1].c > hs[k].c + PostLen(hs[k].body)

RECURSIVE HunkLines(_)
HunkLines(hs) ==
    IF hs = <<>> THEN <<>>
    ELSE <<HunkHeader(Head(hs).c)>> \o Head(hs).body \o HunkLines(Tail(hs))

\* The text git prints ends with a newline: split("\n") yields a last "".
DiffOf(hs) == FileHeader \o HunkLines(hs) \o <<TextLine(<<>>)>>

Diffs == {DiffOf(hs) : hs \in {x \in SeqsUpTo(Hunks, MaxHunks) : WellFormed(x)}}

InitDiff ==
    /\ fileDiff \in Diffs
    /\ changedLines = {}
    /\ scanned = FALSE

\* The diff scan at rest, in the specifications of the other operations.
IdleDiff ==
    /\ fileDiff = <<>>
    /\ changedLines = {}
    /\ scanned = FALSE

\* phase1.js:134-146
ScanFileDiff ==
    /\ ~scanned
    /\ changedLines' = ScanDiff(fileDiff)
    /\ scanned' = TRUE
    /\ UNCHANGED fileDiff

-----------------------------------------------------------------------------
(* Inputs of the origin resolution *)

MaxBlameLines == 3

HashA1 == <<"a","1">>
Hash9f == <<"9","f">>
HashA10 == <<"a","1","0">>
HashFix == <<"f","1">>
Hashes == {HashA1, Hash9f, HashA10}

\* "<40 hex> (<author> <date> <n>) <content>" abridged, and the last "".
BlameLine(h) == h \o <<" ","(">>
BlameLines == {BlameLine(h) : h \in Hashes \cup {HashFix}} \cup {<<>>}

InitOrigin ==
    /\ blame \in SeqsUpTo(BlameLines, MaxBlameLines)
    /\ fixHash = HashFix
    /\ originalCommit = <<>>
    /\ resolved = FALSE

\* The origin resolution at rest, in the specifications of the other operations.
IdleOrigin ==
    /\ blame = <<>>
    /\ fixHash = HashFix
    /\ originalCommit = <<>>
    /\ resolved = FALSE

\* phase1.js:159-168
ResolveFileOrigin ==
    /\ ~resolved
    /\ originalCommit' = ResolveOrigin(blame, fixHash)
    /\ resolved' = TRUE
    /\ UNCHANGED <<blame, fixHash>>

-----------------------------------------------------------------------------
(* The mined repository and the answers of the external services *)

MaxCommits == 2
MaxRuns == 3

FileChange(path, diff, listing) == [path |-> path, fileDiff |-> diff, blame |-> listing]
FixingCommit(hash, message, files) == [hash |-> hash, message |-> message, files |-> files]

Word == Phrase("text", <<"f","i","x">>, 0)
Text(str) == Phrase("text", str, 0)
Keyword == Phrase("keyword", <<>>, 0)
XssPhrase == Phrase("vuln", <<>>, 2)

Cwe79 == CwePrefix \o <<"7","9">>
Cwe89 == CwePrefix \o <<"8","9">>

\* @@ -10,3 +10,4 @@ with a context, an addition and a context line
DiffAddsLine == DiffOf(<<[c |-> 10, body |-> <<ContextLine, AdditionLine, ContextLine>>]>>)
\* a diff without hunk (a mode change)
DiffNoHunk == DiffOf(<<>>)

\* The listing git blame prints for lines attributed to hs, and the last "".
Listing(hs) == [i \in 1..(Len(hs) + 1) |-> IF i <= Len(hs) THEN BlameLine(hs[i]) ELSE <<>>]

\* The identifier of the n-th fixing commit of the catalogue.
HashC(n) == <<"c", n>>

\* "fix CWE-79" on one file
CommitCwe == FixingCommit(HashC("1"), <<Word, Text(Cwe79)>>,
                 <<FileChange("a.js", DiffAddsLine, Listing(<<HashA1>>))>>)
\* no security indicator
CommitPlain == FixingCommit(HashC("2"), <<Word>>, <<FileChange("a.js", DiffAddsLine, Listing(<<HashA1>>))>>)
\* a keyword only: the CWE is left to the fallback inference
CommitKeyword == FixingCommit(HashC("3"), <<Keyword>>,
                 <<FileChange("b.js", DiffAddsLine, Listing(<<Hash9f>>))>>)
\* "cwe-89" and "XSS" on two files of the same origin
CommitTwo == FixingCommit(HashC("4"), <<Text(toLowerCase(Cwe89)), XssPhrase>>,
                 <<FileChange("a.js", DiffAddsLine, Listing(<<Hash9f, HashA1>>)),
                   FileChange("b.js", DiffAddsLine, Listing(<<HashA1>>))>>)
\* "OWASP-A1"
CommitOwasp == FixingCommit(HashC("5"), <<Text(<<"o","w","a","s","p","-","a","1">>)>>,
                 <<FileChange("b.js", DiffAddsLine, Listing(<<Hash9f>>))>>)
\* "CWE-79": a file without hunk, a file whose lines the fix itself added,
\* and a file with an origin
CommitMixed == FixingCommit(HashC("6"), <<Text(Cwe79)>>,
                 <<FileChange("c.js", DiffNoHunk, <<>>),
                   FileChange("a.js", DiffAddsLine, Listing(<<HashC("6")>>)),
                   FileChange("b.js", DiffAddsLine, Listing(<<Hash9f>>))>>)

Catalogue == {CommitCwe, CommitPlain, CommitKeyword, CommitTwo, CommitOwasp, CommitMixed}

Histories ==
    {h \in SeqsUpTo(Catalogue, MaxCommits) :
        h # <<>> /\ \A i, j \in 1..Len(h) : h[i] = h[j] => i = j}

GptReplies == {[ok |-> FALSE, content |-> <<>>],
               [ok |-> TRUE, content |-> UNKNOWN],
               [ok |-> TRUE, content |-> <<"c","w","e","-","2","0","\n">>]}

PrLookups == {[ok |-> TRUE, number |-> <<"7">>],
              [ok |-> TRUE, number |-> <<>>],
              [ok |-> FALSE, number |-> <<>>]}

FileFailures == {"none", "ls-tree", "diff", "blame", "show", "remote"}

NoInfo == [cweIds |-> <<>>, securityRelated |-> FALSE, vulnerabilityTypes |-> <<>>]
\* What the last call of processFixingCommit did: the position of the commit,
\* the classification of its message, the answer of the fallback inference
\* (<<>> when it was not called), the outcome of each file, the answer of its
\* pull-request lookup and the rows given to stmt.run.
NoCommit == [i |-> 0, securityRelated |-> FALSE, cweIds |-> <<>>, inferred |-> <<>>,
             outcomes |-> <<>>, lookups |-> <<>>, rows |-> <<>>]
Phase1Idle == [pc |-> "idle", limit |-> 0, i |-> 0, k |-> 0, info |-> NoInfo]

InitPhase1(histories) ==
    /\ commitLog \in histories
    /\ running = "none"
    /\ runs = 0
    /\ ground_truth = {}
    /\ p1 = Phase1Idle
    /\ p1Last = NoCommit

\* phase1.js:250
targetCommits == IF p1.limit # 0 THEN SubSeq(commitLog, 1, p1.limit) ELSE commitLog

\* phase1.js:225-250 main up to the loop: initializeDatabase drops and
\* recreates ground_truth; limit 0 stands for no --limit. A script is started
\* while none runs and fewer than budget were started.
Phase1Start(budget) ==
    /\ running = "none"
    /\ runs < budget
    /\ \E limit \in 0..Len(commitLog) :
          p1' = [pc |-> "commit", limit |-> limit, i |-> 1, k |-> 0, info |-> NoInfo]
    /\ running' = "phase1"
    /\ runs' = runs + 1
    /\ ground_truth' = {}
    /\ p1Last' = NoCommit
    /\ UNCHANGED <<pureVars, commitLog, workTree, phase2Vars, phase3Vars>>

\* phase1.js:107-109 processFixingCommit for a message that is not
\* security related (the fallback inference is not called either).
Phase1SkipCommit ==
    /\ running = "phase1" /\ p1.pc = "commit" /\ p1.i <= Len(targetCommits)
    /\ LET commit == targetCommits[p1.i]
           info == extractSecurityInfo(commit.message, [ok |-> FALSE, content |-> <<>>])
       IN /\ ~info.securityRelated
          /\ p1Last' = [i |-> p1.i, securityRelated |-> FALSE, cweIds |-> info.cweIds,
                         inferred |-> <<>>, outcomes |-> <<>>, lookups |-> <<>>, rows |-> <<>>]
    /\ p1' = [p1 EXCEPT !.i = p1.i + 1]
    /\ UNCHANGED <<pureVars, commitLog, running, runs, ground_truth, workTree, phase2Vars, phase3Vars>>

\* phase1.js:107-116 processFixingCommit for a security-related message, up
\* to the loop over changedFiles.
Phase1Classify(replies) ==
    /\ running = "phase1" /\ p1.pc = "commit" /\ p1.i <= Len(targetCommits)
    /\ LET commit == targetCommits[p1.i]
       IN \E reply \in replies :
            LET info == extractSecurityInfo(commit.message, reply)
            IN /\ info.securityRelated
               /\ p1Last' = [i |-> p1.i, securityRelated |-> TRUE, cweIds |-> info.cweIds,
                              inferred |-> IF FallbackCalled(matchPatterns(commit.message))
                                           THEN inferCWEWithGPT(reply) ELSE <<>>,
                              outcomes |-> <<>>, lookups |-> <<>>, rows |-> <<>>]
               /\ p1' = IF Len(commit.files) = 0
                         THEN [p1 EXCEPT !.i = p1.i + 1]
                         ELSE [p1 EXCEPT !.pc = "files", !.k = 1, !.info = info]
    /\ UNCHANGED <<pureVars, commitLog, running, runs, ground_truth, workTree, phase2Vars, phase3Vars>>

\* phase1.js:111: git.diff of the commit against its parent throws, outside
\* of any try: main rejects and the script ends.
Phase1DiffFails ==
    /\ running = "phase1" /\ p1.pc = "commit" /\ p1.i <= Len(targetCommits)
    /\ \E reply \in GptReplies :
          extractSecurityInfo(targetCommits[p1.i].message, reply).securityRelated
    /\ p1' = [Phase1Idle EXCEPT !.pc = "failed"]
    /\ p1Last' = NoCommit
    /\ running' = "none"
    /\ UNCHANGED <<pureVars, commitLog, runs, ground_truth, workTree, phase2Vars, phase3Vars>>

\* phase1.js:117-218: one iteration of the loop over changedFiles.
Phase1ProcessFile(failures, lookups) ==
    /\ running = "phase1" /\ p1.pc = "files"
    /\ LET commit == targetCommits[p1.i]
       IN \E fail \in failures, lookup \in lookups :
            LET r == ProcessFile(commit, commit.files[p1.k], p1.info, fail, lookup)
            IN /\ ground_truth' = RunAll(ground_truth, r.rows, 1)
               /\ p1Last' = [p1Last EXCEPT !.outcomes = Append(@, r.outcome),
                                            !.lookups = Append(@, r.lookup),
                                            !.rows = @ \o r.rows]
               /\ p1' = IF p1.k = Len(commit.files)
                         THEN [p1 EXCEPT !.pc = "commit", !.i = p1.i + 1, !.k = 0, !.info = NoInfo]
                         ELSE [p1 EXCEPT !.k = p1.k + 1]
    /\ UNCHANGED <<pureVars, commitLog, running, runs, workTree, phase2Vars, phase3Vars>>

\* phase1.js:256
Phase1Complete ==
    /\ running = "phase1" /\ p1.pc = "commit" /\ p1.i > Len(targetCommits)
    /\ p1' = [Phase1Idle EXCEPT !.pc = "done"]
    /\ p1Last' = NoCommit
    /\ running' = "none"
    /\ UNCHANGED <<pureVars, commitLog, runs, ground_truth, workTree, phase2Vars, phase3Vars>>

\* processFixingCommit and the loop of main (phase1.js:252-254) when no call
\* throws, as the table they leave.
ExtractCommit(table, commit, reply, lookup) ==
    LET info == extractSecurityInfo(commit.message, reply)
        n == Len(commit.files)
    IN IF ~info.securityRelated THEN table
       ELSE ProcessFiles(commit, info, [k \in 1..n |-> "none"], [k \in 1..n |-> lookup], 1,
                [table |-> table, outcomes |-> <<>>, rows |-> <<>>]).table

RECURSIVE ExtractFrom(_, _, _, _, _)
ExtractFrom(table, history, i, reply, lookup) ==
    IF i > Len(history) THEN table
    ELSE ExtractFrom(ExtractCommit(table, history[i], reply, lookup), history, i + 1, reply, lookup)

\* The tables phase 1 leaves for the histories above.
GroundTruths ==
    {ExtractFrom({}, h, 1, reply, lookup) : h \in Histories, reply \in GptReplies, lookup \in PrLookups}

-----------------------------------------------------------------------------
(* The AI evaluation and the answers of the detector *)

MaxFindings == 2

Finding(cwe, lines) == [cwe_id |-> cwe, line_numbers |-> lines]
\* "cwe-79" comes without line_numbers
Findings == {Finding(Cwe79, <<40, 45>>), Finding(toLowerCase(Cwe79), <<>>),
             Finding(<<"7","9">>, <<10, 12>>), Finding(Cwe89, <<7, 7>>)}

ApiError(code, message) == [code |-> code, message |-> message]
ApiErrors ==
    {ApiError("context_length_exceeded", <<"too", "long">>),
     ApiError("invalid_request_error", <<"This", "model's", "maximum", "context", "length", "is", "8192">>),
     ApiError("invalid_request_error", <<"Requested", "too", "many", "tokens">>),
     ApiError("rate_limit_exceeded", <<"Rate", "limit", "reached">>),
     ApiError("", <<"Unexpected", "token", "in", "JSON">>)}

NoError == ApiError("", <<>>)
Answer(v) == [ok |-> TRUE, vulnerabilities |-> v, err |-> NoError]
Failure(e) == [ok |-> FALSE, vulnerabilities |-> <<>>, err |-> e]
NotCalled == Failure(NoError)
Completions ==
    {Answer(v) : v \in SeqsUpTo(Findings, MaxFindings)} \cup {Failure(e) : e \in ApiErrors}

NoEntry == [evaluated |-> FALSE, gt |-> GtRow(<<>>, "", <<>>, <<>>, <<>>, <<>>),
            access |-> FALSE, read |-> FALSE,
            completion |-> NotCalled,
            row |-> AiRow(GtRow(<<>>, "", <<>>, <<>>, <<>>, <<>>), <<>>, "", Details("", <<>>), Null)]

\* The rows of commitsByHash.get(commitHash) not evaluated yet.
Entries(pos) == {r \in pos.todo : r.original_commit_hash = pos.commitHash}

\* phase2.js:127-156: the rows of ground_truth are read once. The table
\* exists once phase 1 has run.
Phase2Start(budget) ==
    /\ running = "none"
    /\ runs < budget
    /\ p1.pc # "idle"
    /\ running' = "phase2"
    /\ runs' = runs + 1
    /\ p2' = [pc |-> "loop", todo |-> ground_truth, commitHash |-> <<>>]
    /\ p2Last' = NoEntry
    /\ UNCHANGED <<pureVars, commitLog, ground_truth, p1, p1Last, workTree, ai_results, phase3Vars>>

\* The loop goes on to the entries of the next commit while the working tree
\* stays where it was: a checkout that is not awaited, or left out.
Phase2Checkout_TreeLeft ==
    /\ running = "phase2" /\ p2.pc = "loop" /\ Entries(p2) = {}
    /\ \E r \in p2.todo : p2' = [p2 EXCEPT !.commitHash = r.original_commit_hash]
    /\ UNCHANGED <<pureVars, commitLog, running, runs, ground_truth, p1, p1Last, workTree, ai_results,
                   p2Last, phase3Vars>>

\* phase2.js:158-160: the next original commit is checked out.
Phase2Checkout ==
    /\ running = "phase2" /\ p2.pc = "loop" /\ Entries(p2) = {}
    /\ \E r \in p2.todo :
          /\ p2' = [p2 EXCEPT !.commitHash = r.original_commit_hash]
          /\ workTree' = r.original_commit_hash
    /\ UNCHANGED <<pureVars, commitLog, running, runs, ground_truth, p1, p1Last, ai_results, p2Last, phase3Vars>>

\* phase2.js:160: git.checkout throws, outside of any try: processCommits
\* rejects and the script ends.
Phase2CheckoutFails ==
    /\ running = "phase2" /\ p2.pc = "loop" /\ Entries(p2) = {}
    /\ p2.todo # {}
    /\ p2' = [p2 EXCEPT !.pc = "failed"]
    /\ p2Last' = NoEntry
    /\ running' = "none"
    /\ UNCHANGED <<pureVars, commitLog, runs, ground_truth, p1, p1Last, workTree, ai_results, phase3Vars>>

\* phase2.js:162-284: one ground-truth entry of the commit checked out. The
\* file is read only when it is there, the detector called only when the
\* file was read.
EvaluateWith(gt, access, read, completion) ==
    LET row == EvaluateEntry(gt, access, read, completion)
    IN /\ running = "phase2" /\ p2.pc = "loop"
       /\ gt \in Entries(p2)
       /\ ai_results' = InsertOrReplace(ai_results, row)
       /\ p2' = [p2 EXCEPT !.todo = p2.todo \ {gt}]
       /\ p2Last' = [evaluated |-> TRUE, gt |-> gt, access |-> access, read |-> read,
                      completion |-> completion, row |-> row]
       /\ UNCHANGED <<pureVars, commitLog, running, runs, ground_truth, p1, p1Last, workTree,
                      phase3Vars>>

\* The outcomes of fs.access, fs.readFile and the detector call for one entry.
Outputs(completions) ==
    {o \in [access : BOOLEAN, read : BOOLEAN, completion : completions \cup {NotCalled}] :
        /\ ~o.access => ~o.read
        /\ (o.completion = NotCalled) <=> ~o.read}

Phase2Evaluate(completions) ==
    \E gt \in Entries(p2), o \in Outputs(completions) :
        EvaluateWith(gt, o.access, o.read, o.completion)

\* phase2.js:287
Phase2Complete ==
    /\ running = "phase2" /\ p2.pc = "loop" /\ p2.todo = {}
    /\ p2' = [p2 EXCEPT !.pc = "done"]
    /\ p2Last' = NoEntry
    /\ running' = "none"
    /\ UNCHANGED <<pureVars, commitLog, runs, ground_truth, p1, p1Last, workTree, ai_results, phase3Vars>>

-----------------------------------------------------------------------------
(* The static-analyzer evaluation and the answers of the scanner *)

MaxIssues == 2

Issue(file, cwe, message) == [component |-> file, cwe |-> cwe, message |-> message]
Issues ==
    {Issue(f, c, <<"Make", "sure">>) : f \in {"a.js", "b.js"}, c \in {<<>>, Cwe79, <<"7","9">>, Cwe89}}
    \cup {Issue("a.js", <<>>, <<>>)}

InitResults ==
    /\ workTree = <<"H","E","A","D">>
    /\ ai_results = {}
    /\ p2 = [pc |-> "idle", todo |-> {}, commitHash |-> <<>>]
    /\ p2Last = NoEntry
    /\ sonarqube_results = {}
    /\ p3 = [pc |-> "idle", todo |-> {}, scanner |-> TRUE, sonarVars |-> TRUE,
             vulnEntries |-> {}, sonarResults |-> <<>>]

\* The rows of commitsByHash.get(commitHash).
Group(pos, commitHash) == {r \in pos.todo : r.original_commit_hash = commitHash}

\* phase3.js:182-212: the rows of ground_truth are read once. scanner tells
\* whether sonar-scanner is in PATH, sonarVars whether SONARQUBE_URL and
\* SONARQUBE_TOKEN are set, for the whole run.
Phase3Start(budget) ==
    /\ running = "none"
    /\ runs < budget
    /\ p1.pc # "idle"
    /\ running' = "phase3"
    /\ runs' = runs + 1
    /\ \E scanner \in BOOLEAN, sonarVars \in BOOLEAN :
          p3' = [pc |-> "loop", todo |-> ground_truth, scanner |-> scanner, sonarVars |-> sonarVars,
                 vulnEntries |-> {}, sonarResults |-> <<>>]
    /\ UNCHANGED <<pureVars, commitLog, ground_truth, p1, p1Last, workTree, phase2Vars, sonarqube_results>>

\* phase3.js:216-223: reset, clean or checkout throws; the loop continues.
Phase3GitFails ==
    /\ running = "phase3" /\ p3.pc = "loop"
    /\ \E r \in p3.todo :
          p3' = [p3 EXCEPT !.todo = p3.todo \ Group(p3, r.original_commit_hash),
                           !.vulnEntries = {}, !.sonarResults = <<>>]
    /\ UNCHANGED <<pureVars, commitLog, running, runs, ground_truth, p1, p1Last, workTree, phase2Vars,
                   sonarqube_results>>

\* phase3.js:225-228: writing sonar-project.properties throws, outside of any
\* try: processCommits rejects and the script ends.
Phase3PropertiesFail ==
    /\ running = "phase3" /\ p3.pc = "loop"
    /\ \E r \in p3.todo : workTree' = r.original_commit_hash
    /\ p3' = [p3 EXCEPT !.pc = "failed", !.vulnEntries = {}, !.sonarResults = <<>>]
    /\ running' = "none"
    /\ UNCHANGED <<pureVars, commitLog, runs, ground_truth, p1, p1Last, phase2Vars, sonarqube_results>>

\* phase3.js:230-233: process.exit(1)
Phase3ScannerMissing ==
    /\ running = "phase3" /\ p3.pc = "loop" /\ ~p3.scanner
    /\ \E r \in p3.todo : workTree' = r.original_commit_hash
    /\ p3' = [p3 EXCEPT !.pc = "failed", !.vulnEntries = {}, !.sonarResults = <<>>]
    /\ running' = "none"
    /\ UNCHANGED <<pureVars, commitLog, runs, ground_truth, p1, p1Last, phase2Vars, sonarqube_results>>

\* phase3.js:235-241: the scan throws; the loop continues.
Phase3ScanFails ==
    /\ running = "phase3" /\ p3.pc = "loop" /\ p3.scanner
    /\ \E r \in p3.todo :
          /\ workTree' = r.original_commit_hash
          /\ p3' = [p3 EXCEPT !.todo = p3.todo \ Group(p3, r.original_commit_hash),
                              !.vulnEntries = {}, !.sonarResults = <<>>]
    /\ UNCHANGED <<pureVars, commitLog, running, runs, ground_truth, p1, p1Last, phase2Vars, sonarqube_results>>

\* phase3.js:243-250: fetchSonarIssuesREST throws (always when the variables
\* are not set, lines 75-77); the loop continues.
Phase3FetchFails ==
    /\ running = "phase3" /\ p3.pc = "loop" /\ p3.scanner
    /\ \E r \in p3.todo :
          /\ workTree' = r.original_commit_hash
          /\ p3' = [p3 EXCEPT !.todo = p3.todo \ Group(p3, r.original_commit_hash),
                              !.vulnEntries = {}, !.sonarResults = <<>>]
    /\ UNCHANGED <<pureVars, commitLog, running, runs, ground_truth, p1, p1Last, phase2Vars, sonarqube_results>>

RECURSIVE WriteAll(_, _)
WriteAll(table, rows) ==
    IF rows = {} THEN table
    ELSE LET r == CHOOSE x \in rows : TRUE
         IN WriteAll(InsertOrReplace(table, r), rows \ {r})

\* phase3.js:214-313: one original commit scanned, its issues fetched and
\* every entry of the commit classified.
ClassifyWith(commitHash, sonarResults, replies) ==
    LET detected == allDetectedCWEs(sonarResults, replies, 1, <<>>)
        group == Group(p3, commitHash)
    IN /\ running = "phase3" /\ p3.pc = "loop" /\ p3.scanner /\ p3.sonarVars
       /\ group # {}
       /\ workTree' = commitHash
       /\ sonarqube_results' =
              WriteAll(sonarqube_results, {SonarVerdict(gt, detected) : gt \in group})
       /\ p3' = [p3 EXCEPT !.todo = p3.todo \ group,
                           !.vulnEntries = group, !.sonarResults = sonarResults]
       /\ UNCHANGED <<pureVars, commitLog, running, runs, ground_truth, p1, p1Last, phase2Vars>>

Phase3Classify(scans) ==
    \E r \in p3.todo, sonarResults \in scans :
        \E replies \in [1..Len(sonarResults) -> GptReplies] :
            ClassifyWith(r.original_commit_hash, sonarResults, replies)

\* phase3.js:315
Phase3Complete ==
    /\ running = "phase3" /\ p3.pc = "loop" /\ p3.todo = {}
    /\ p3' = [p3 EXCEPT !.pc = "done", !.vulnEntries = {}, !.sonarResults = <<>>]
    /\ running' = "none"
    /\ UNCHANGED <<pureVars, commitLog, runs, ground_truth, p1, p1Last, workTree, phase2Vars, sonarqube_results>>

-----------------------------------------------------------------------------
(* phase3.js: the paginated fetch of the issues *)

MaxPages == 3
MaxPageLen == 2
MaxTotal == 3

\* The data of a successful response of /api/issues/search: with or without
\* an issues field, the issues of the page and paging.total.
Response(hasIssues, issues, total) == [hasIssues |-> hasIssues, issues |-> issues, total |-> total]
Responses ==
    {Response(TRUE, page, total) :
        page \in SeqsUpTo({Issue("a.js", Cwe79, <<>>), Issue("b.js", <<>>, <<>>)}, MaxPageLen),
        total \in 0..MaxTotal}
    \cup {Response(FALSE, <<>>, 0)}

\* No fetch is under way.
NoFetch == [pc |-> "idle", issues |-> <<>>, page |-> 1, total |-> 0, requests |-> 0,
            last |-> Response(FALSE, <<>>, 0)]

\* phase3.js:72-81: the function throws when a variable or the project key
\* is missing, and starts with no issue, page 1 and total 0.
FetchStart ==
    /\ fetch.pc = "idle"
    /\ \E sonarVars \in BOOLEAN :
          fetch' = [NoFetch EXCEPT !.pc = IF sonarVars THEN "loop" ELSE "threw"]
    /\ UNCHANGED <<diffVars, originVars, oracleVars, mainVars, pipelineVars>>

\* phase3.js:83-100: one iteration of the do-while loop, the request
\* answered by res: the issues of the page are appended, total is taken from
\* the response and page is incremented, or the loop is left when the
\* response has no issues field; the loop goes on while fewer issues than
\* total are collected. The model makes at most MaxPages requests.
FetchPage(responses) ==
    /\ fetch.pc = "loop" /\ fetch.requests < MaxPages
    /\ \E res \in responses :
          fetch' =
             IF res.hasIssues
             THEN LET issues == fetch.issues \o res.issues
                  IN [pc |-> IF Len(issues) < res.total THEN "loop" ELSE "done",
                      issues |-> issues, page |-> fetch.page + 1, total |-> res.total,
                      requests |-> fetch.requests + 1, last |-> res]
             ELSE [fetch EXCEPT !.pc = "done", !.requests = @ + 1, !.last = res]
    /\ UNCHANGED <<diffVars, originVars, oracleVars, mainVars, pipelineVars>>

-----------------------------------------------------------------------------
(* main.js: the pipeline *)

\* main.js:47-50
Scripts == <<"phase1.js", "phase2.js", "phase3.js", "phase4.js">>

\* main.js:23-32 runPhase up to execSync, which starts the script and waits.
MainSpawn ==
    /\ main.pc = "run" /\ main.n <= Len(Scripts)
    /\ main' = [main EXCEPT !.pc = "wait", !.started = Append(@, Scripts[main.n])]
    /\ UNCHANGED <<diffVars, originVars, oracleVars, fetchVars, pipelineVars>>

\* The script execSync waits for, and whether it has started.
Child == IF main.pc = "wait" THEN Scripts[main.n] ELSE ""
ChildIdle ==
    CASE Child = "phase1.js" -> p1.pc = "idle"
      [] Child = "phase2.js" -> p2.pc = "idle"
      [] Child = "phase3.js" -> p3.pc = "idle"
      [] OTHER -> FALSE

\* The position the script execSync waits for has ended at.
ChildEnd ==
    CASE Child = "phase1.js" -> p1.pc
      [] Child = "phase2.js" -> p2.pc
      [] Child = "phase3.js" -> p3.pc
      [] OTHER -> "idle"

\* main.js:28-36 and 47-50: execSync returns when the script exited with
\* status 0 and throws when it did not; runPhase then calls process.exit(1).
\* A script whose main function rejects, or that calls process.exit(1), exits
\* with status 1.
Return(status) ==
    main' = IF status = 0
            THEN [main EXCEPT !.pc = "run", !.n = @ + 1, !.statuses = Append(@, status)]
            ELSE [main EXCEPT !.pc = "exited", !.statuses = Append(@, status), !.exit = <<1>>]

\* runPhase without the call of process.exit.
MainReap_GoesOn ==
    /\ main.pc = "wait" /\ running = "none"
    /\ ChildEnd \in {"done", "failed"}
    /\ main' = [main EXCEPT !.pc = "run", !.n = @ + 1,
                            !.statuses = Append(@, IF ChildEnd = "done" THEN 0 ELSE 1)]
    /\ UNCHANGED <<diffVars, originVars, oracleVars, fetchVars, pipelineVars>>

MainReap ==
    /\ main.pc = "wait" /\ running = "none"
    /\ ChildEnd \in {"done", "failed"}
    /\ Return(IF ChildEnd = "done" THEN 0 ELSE 1)
    /\ UNCHANGED <<diffVars, originVars, oracleVars, fetchVars, pipelineVars>>

\* main.js:50: phase4.js runs and exits; the report it writes is not part of
\* the state.
MainPhase4 ==
    /\ main.pc = "wait" /\ Child = "phase4.js"
    /\ \E status \in {0, 1} : Return(status)
    /\ UNCHANGED <<diffVars, originVars, oracleVars, fetchVars, pipelineVars>>

\* main.js:52-53
MainComplete ==
    /\ main.pc = "run" /\ main.n > Len(Scripts)
    /\ main' = [main EXCEPT !.pc = "complete", !.exit = <<0>>]
    /\ UNCHANGED <<diffVars, originVars, oracleVars, fetchVars, pipelineVars>>

-----------------------------------------------------------------------------
(* Specifications *)

vars == <<pureVars, pipelineVars>>

\* No detector output is fixed: each call answers as it likes.
NoDetector == [ai |-> <<>>, sonar |-> <<>>]
IdleDetector == detector = NoDetector

\* main.js is not used: the scripts are started by hand.
NoMain == [pc |-> "idle", n |-> 0, started |-> <<>>, statuses |-> <<>>, exit |-> <<>>]
IdleMain == main = NoMain /\ fetch = NoFetch   \* and no fetch is under way

\* The pipeline at rest, in the specifications of the pure operations.
IdlePipeline ==
    /\ IdleDetector
    /\ IdleMain
    /\ commitLog = <<>>
    /\ running = "none"
    /\ runs = 0
    /\ ground_truth = {}
    /\ p1 = Phase1Idle
    /\ p1Last = NoCommit
    /\ InitResults

\* The diff scan of one per-file diff.
NextDiff == ScanFileDiff /\ UNCHANGED <<originVars, oracleVars, mainVars, fetchVars, pipelineVars>>
InitOfDiff == InitDiff /\ IdleOrigin /\ IdlePipeline
SpecDiff == InitOfDiff /\ [][NextDiff]_vars

\* The origin resolution of one attribution listing.
NextOrigin ==
    ResolveFileOrigin /\ UNCHANGED <<diffVars, oracleVars, mainVars, fetchVars, pipelineVars>>
InitOfOrigin == IdleDiff /\ InitOrigin /\ IdlePipeline
SpecOrigin == InitOfOrigin /\ [][NextOrigin]_vars

\* One run of phase 1 over every history.
NextPhase1 ==
    \/ Phase1Start(1)
    \/ Phase1SkipCommit
    \/ Phase1Classify(GptReplies)
    \/ Phase1DiffFails
    \/ Phase1ProcessFile(FileFailures, PrLookups)
    \/ Phase1Complete
InitOfPhase1 ==
    IdleDiff /\ IdleOrigin /\ IdleDetector /\ IdleMain /\ InitPhase1(Histories) /\ InitResults
SpecPhase1 == InitOfPhase1 /\ [][NextPhase1]_vars

\* Repeated runs of phase 1 over every history, each with its own limit.
NextReextract ==
    \/ Phase1Start(MaxRuns)
    \/ Phase1SkipCommit
    \/ Phase1Classify(GptReplies)
    \/ Phase1DiffFails
    \/ Phase1ProcessFile(FileFailures, PrLookups)
    \/ Phase1Complete
SpecReextract == InitOfPhase1 /\ [][NextReextract]_vars

\* One run of main.js: each script is started by execSync and runs to its end
\* before main.js goes on.
NextMain ==
    \/ MainSpawn
    \/ ChildIdle /\ Child = "phase1.js" /\ Phase1Start(MaxRuns)
    \/ Phase1SkipCommit
    \/ Phase1Classify({[ok |-> TRUE, content |-> UNKNOWN]})
    \/ Phase1DiffFails
    \/ Phase1ProcessFile({"none", "blame"}, {[ok |-> TRUE, number |-> <<>>]})
    \/ Phase1Complete
    \/ ChildIdle /\ Child = "phase2.js" /\ Phase2Start(MaxRuns)
    \/ Phase2Checkout
    \/ Phase2CheckoutFails
    \/ Phase2Evaluate({Answer(<<>>), Answer(<<Finding(Cwe79, <<40, 45>>)>>)})
    \/ Phase2Complete
    \/ ChildIdle /\ Child = "phase3.js" /\ Phase3Start(MaxRuns)
    \/ Phase3GitFails
    \/ Phase3PropertiesFail
    \/ Phase3ScannerMissing
    \/ Phase3ScanFails
    \/ Phase3FetchFails
    \/ Phase3Classify({<<>>, <<Issue("a.js", Cwe79, <<"Make", "sure">>)>>})
    \/ Phase3Complete
    \/ MainReap
    \/ MainPhase4
    \/ MainComplete
InitOfMain ==
    /\ IdleDiff /\ IdleOrigin /\ IdleDetector
    /\ InitPhase1(Histories) /\ InitResults
    /\ main = [NoMain EXCEPT !.pc = "run", !.n = 1]
    /\ fetch = NoFetch
SpecMain == InitOfMain /\ [][NextMain]_vars

\* One call of fetchSonarIssuesREST against every sequence of responses.
NextFetch ==
    \/ FetchStart
    \/ FetchPage(Responses)
InitOfFetch == IdleDiff /\ IdleOrigin /\ IdlePipeline
SpecFetch == InitOfFetch /\ [][NextFetch]_vars

\* A history phase 1 turns into table t.
HistoryOf(t) ==
    CHOOSE h \in Histories :
        \E reply \in GptReplies, lookup \in PrLookups : ExtractFrom({}, h, 1, reply, lookup) = t

\* The state phase 1 leaves when it completes.
InitExtracted ==
    /\ ground_truth \in GroundTruths
    /\ commitLog = HistoryOf(ground_truth)
    /\ running = "none"
    /\ runs = 0
    /\ p1 = [Phase1Idle EXCEPT !.pc = "done"]
    /\ p1Last = NoCommit
    /\ InitResults

\* One run of phase 2 over a table phase 1 left.
NextPhase2 ==
    \/ Phase2Start(1)
    \/ Phase2Checkout
    \/ Phase2CheckoutFails
    \/ Phase2Evaluate(Completions)
    \/ Phase2Complete
InitOfDetector == IdleDiff /\ IdleOrigin /\ IdleDetector /\ IdleMain /\ InitExtracted
SpecPhase2 == InitOfDetector /\ [][NextPhase2]_vars

\* One run of phase 3 over a table phase 1 left.
NextPhase3 ==
    \/ Phase3Start(1)
    \/ Phase3GitFails
    \/ Phase3PropertiesFail
    \/ Phase3ScannerMissing
    \/ Phase3ScanFails
    \/ Phase3FetchFails
    \/ Phase3Classify(SeqsUpTo(Issues, MaxIssues))
    \/ Phase3Complete
SpecPhase3 == InitOfDetector /\ [][NextPhase3]_vars

\* Detector outputs that differ from one run to the next.
RerunCompletions ==
    {Answer(<<>>), Answer(<<Finding(Cwe79, <<40, 45>>)>>), Answer(<<Finding(Cwe89, <<7, 7>>)>>),
     Failure(ApiError("rate_limit_exceeded", <<"Rate", "limit", "reached">>))}

\* Repeated runs of phase 2 over a table phase 1 left.
NextRerun ==
    \/ Phase2Start(MaxRuns)
    \/ Phase2Checkout
    \/ Phase2CheckoutFails
    \/ Phase2Evaluate(RerunCompletions)
    \/ Phase2Complete
SpecRerun == InitOfDetector /\ [][NextRerun]_vars

\* Detector outputs that are the same from one run to the next: what phase 2
\* meets for each record, what the scan and the inference answer for each
\* original commit.
ReplayOutputs ==
    {o \in Outputs(RerunCompletions) :
        o.completion \notin {Failure(e) : e \in ApiErrors} /\ (o.access => o.read)}
Scan(issues, reply) == [issues |-> issues, replies |-> [i \in 1..Len(issues) |-> reply]]
ReplayScans ==
    {Scan(<<>>, [ok |-> TRUE, content |-> UNKNOWN]),
     Scan(<<Issue("a.js", Cwe79, <<"Make", "sure">>)>>, [ok |-> TRUE, content |-> UNKNOWN]),
     Scan(<<Issue("b.js", <<>>, <<"Make", "sure">>), Issue("a.js", Cwe89, <<"Make", "sure">>)>>,
          [ok |-> TRUE, content |-> <<"c","w","e","-","2","0","\n">>])}
Detectors(table) ==
    [ai : [table -> ReplayOutputs],
     sonar : [{r.original_commit_hash : r \in table} -> ReplayScans]]

\* phase2.js:162-284 with the outputs of the detector fixed.
Phase2Replay ==
    \E gt \in Entries(p2) :
        EvaluateWith(gt, detector.ai[gt].access, detector.ai[gt].read, detector.ai[gt].completion)

\* phase3.js:214-313 with the outputs of the scanner and the inference fixed.
Phase3Replay ==
    \E r \in p3.todo :
        LET scan == detector.sonar[r.original_commit_hash]
        IN ClassifyWith(r.original_commit_hash, scan.issues, scan.replies)

\* The result tables are removed between two runs: phase2.js:22-36 and
\* phase3.js:22-36 create them again, empty.
ResetResults ==
    /\ running = "none"
    /\ ai_results # {} \/ sonarqube_results # {}
    /\ ai_results' = {}
    /\ sonarqube_results' = {}
    /\ p2' = [pc |-> "idle", todo |-> {}, commitHash |-> <<>>]
    /\ p3' = [pc |-> "idle", todo |-> {}, scanner |-> TRUE, sonarVars |-> TRUE,
              vulnEntries |-> {}, sonarResults |-> <<>>]
    /\ UNCHANGED <<pureVars, commitLog, running, runs, ground_truth, p1, p1Last, workTree, p2Last>>

\* Repeated runs of phases 2 and 3 over a table phase 1 left, the detectors
\* answering the same in every run.
NextReplay ==
    \/ Phase2Start(MaxRuns)
    \/ Phase2Checkout
    \/ Phase2Replay
    \/ Phase2Complete
    \/ Phase3Start(MaxRuns)
    \/ Phase3Replay
    \/ Phase3Complete
    \/ ResetResults
InitOfReplay ==
    IdleDiff /\ IdleOrigin /\ IdleMain /\ InitExtracted /\ detector \in Detectors(ground_truth)
SpecReplay == InitOfReplay /\ [][NextReplay]_vars

-----------------------------------------------------------------------------
(* The diff scan against the unified diff format *)

\* The post-image line numbers of the addition lines of a per-file diff, by
\* the unified format: a hunk header sets the position, a context line and
\* an addition line take one post-image line each, a removal line takes none.
RECURSIVE PostImageAdditions(_, _, _, _, _)
PostImageAdditions(lines, i, n, inHunk, acc) ==
    IF i > Len(lines) THEN acc
    ELSE LET l == lines[i]
             first == IF Len(l.text) > 0 THEN l.text[1] ELSE ""
         IN IF l.m THEN PostImageAdditions(lines, i + 1, l.c, TRUE, acc)
            ELSE IF inHunk /\ first = "+"
            THEN PostImageAdditions(lines, i + 1, n + 1, inHunk, acc \cup {n})
            ELSE IF inHunk /\ first = " "
            THEN PostImageAdditions(lines, i + 1, n + 1, inHunk, acc)
            ELSE PostImageAdditions(lines, i + 1, n, inHunk, acc)

AdditionsOf(lines) == PostImageAdditions(lines, 1, 0, FALSE, {})

HunkBody(lines) == {i \in 1..Len(lines) : i > Len(FileHeader) /\ ~lines[i].m /\ lines[i].text # <<>>}
HasHunk(lines) == \E i \in 1..Len(lines) : lines[i].m
HasRemoval(lines) == \E i \in HunkBody(lines) : lines[i].text[1] = "-"
HasIncrementAddition(lines) == \E i \in HunkBody(lines) : lines[i] = AdditionOfIncrement

\* C8: for a file diff of one or more hunks holding only context and
\* addition lines, the scan returns exactly the post-fix line numbers of the
\* addition lines.
C8_AdditionsOnly ==
    (scanned /\ HasHunk(fileDiff) /\ ~HasRemoval(fileDiff))
        => changedLines = AdditionsOf(fileDiff)

\* C9: removal lines do not advance the post-image counter: in a diff with
\* removal lines (and additions the scan recognizes), every addition is
\* recorded at its line number in the post-fix file.
C9_RemovalsDoNotAdvance ==
    (scanned /\ HasRemoval(fileDiff) /\ ~HasIncrementAddition(fileDiff))
        => changedLines = AdditionsOf(fileDiff)

-----------------------------------------------------------------------------
(* The origin resolution *)

\* a = b or a before b, character by character in code-unit order.
RECURSIVE LexLeq(_, _)
LexLeq(a, b) ==
    IF a = <<>> THEN TRUE
    ELSE IF b = <<>> THEN FALSE
    ELSE IF Head(a) = Head(b) THEN LexLeq(Tail(a), Tail(b))
    ELSE CodeUnit(Head(a)) < CodeUnit(Head(b))

Attributed(lines, hash) ==
    {BlameMatch(lines[i]) : i \in 1..Len(lines)} \ {<<>>, hash}

Orderings(n) == {p \in [1..n -> 1..n] : \A i, j \in 1..n : p[i] = p[j] => i = j}
Permuted(lines, p) == [i \in 1..Len(lines) |-> lines[p[i]]]

\* C10: the origin is the lexicographically greatest of the distinct
\* identifiers attributed to the changed lines, whatever the order of the
\* listing, and the commit itself when all lines are attributed to one.
C10_OriginIsGreatest ==
    resolved =>
        LET ids == Attributed(blame, fixHash)
        IN /\ ids # {} => (originalCommit \in ids /\ \A h \in ids : LexLeq(h, originalCommit))
           /\ \A p \in Orderings(Len(blame)) :
                  ResolveOrigin(Permuted(blame, p), fixHash) = originalCommit
           /\ \A h \in Hashes : ids = {h} => originalCommit = h

C10_Witness ==
    /\ resolved
    /\ blame = <<BlameLine(HashA10), BlameLine(HashA1), BlameLine(Hash9f)>>
    /\ originalCommit = HashA10

-----------------------------------------------------------------------------
(* The verdicts of the AI evaluation *)

\* The findings of a list whose normalized CWE is that of the record.
Matching(gt, fs) == {i \in 1..Len(fs) : normalizeCwe(fs[i].cwe_id) = normalizeCwe(gt.cwe_id)}
First(S) == CHOOSE i \in S : \A k \in S : i <= k

\* The entry evaluated last was read and the detector returned a list.
Analyzed == p2Last.evaluated /\ p2Last.access /\ p2Last.read /\ p2Last.completion.ok

\* C1: for a record whose file was read and whose detector call returned a
\* list, the result is TP exactly when some finding has the record's
\* normalized CWE, with the line range of the first such finding; otherwise
\* FP exactly when the list is not empty, citing the first finding's CWE
\* against the expected one; otherwise FN citing the missed CWE.
C1_VerdictOfFindings ==
    Analyzed =>
        LET gt == p2Last.gt
            fs == p2Last.completion.vulnerabilities
            row == p2Last.row
            hits == Matching(gt, fs)
        IN /\ row \in ai_results
           /\ row.evaluation_result \in {"TP", "FP", "FN"}
           /\ row.evaluation_result = "TP" <=> hits # {}
           /\ row.evaluation_result = "TP" =>
                  row.detected_line_numbers = Json(fs[First(hits)].line_numbers)
           /\ row.evaluation_result = "FP" <=> (hits = {} /\ fs # <<>>)
           /\ row.evaluation_result = "FP" =>
                  row.evaluation_details =
                      Details("False positive: AI reported %, expected %", <<fs[1].cwe_id, gt.cwe_id>>)
           /\ row.evaluation_result = "FN" <=> fs = <<>>
           /\ row.evaluation_result = "FN" =>
                  row.evaluation_details = Details("Missed vulnerability: CWE %", <<gt.cwe_id>>)

\* Two findings match the record and carry different line ranges.
C1_Witness ==
    /\ Analyzed
    /\ Cardinality(Matching(p2Last.gt, p2Last.completion.vulnerabilities)) = 2
    /\ p2Last.completion.vulnerabilities[1].line_numbers
           # p2Last.completion.vulnerabilities[2].line_numbers
    /\ p2Last.row.evaluation_result = "TP"
    /\ p2Last.row.detected_line_numbers = Json(p2Last.completion.vulnerabilities[1].line_numbers)

\* C2: when the file is missing, reading it fails, the detector call raises
\* an error or the detector returns its context-limit marker, the row of the
\* record is SKIPPED with the rationale of that cause, never TP, FP or FN.
C2_SkippedWithCause ==
    (p2Last.evaluated /\ ~Analyzed) =>
        LET row == p2Last.row
            err == p2Last.completion.err
            outcome == analyzeFileWithAI(p2Last.completion)
        IN /\ row \in ai_results
           /\ row.evaluation_result = "SKIPPED"
           /\ row.detected_line_numbers = Null
           /\ ~p2Last.access =>
                  row.evaluation_details = Details("Skipped: file not found in original commit.", <<>>)
           /\ (p2Last.access /\ ~p2Last.read) =>
                  row.evaluation_details = Details("Skipped: failed to read file content.", <<>>)
           /\ (p2Last.read /\ outcome.thrown) =>
                  row.evaluation_details = Details("Skipped: AI error - %", <<err.message>>)
           /\ (p2Last.read /\ (outcome.skippedDueToContext \/ err.code = "context_length_exceeded")) =>
                  row.evaluation_details =
                      Details("Skipped due to context length exceeding GPT limits.", <<>>)

\* The detector answered with the context-limit error for a file that was read.
C2_Witness ==
    /\ p2Last.evaluated /\ p2Last.read
    /\ p2Last.completion.err.code = "context_length_exceeded"
    /\ p2Last.row.evaluation_result = "SKIPPED"

\* The rows of a results table that belong to a ground-truth record
\* (vulnerability_id alone identifies a row of ground_truth).
VerdictsOf(table, gt) ==
    {r \in table : r.vulnerability_id = gt.vulnerability_id /\ r.file_path = gt.file_path}

\* C3: after any number of complete runs of phase 2 over the same ground
\* truth, ai_results holds exactly one row per ground-truth record.
C3_OneVerdictPerRecord ==
    (running = "none" /\ p2.pc = "done") =>
        \A gt \in ground_truth : Cardinality(VerdictsOf(ai_results, gt)) = 1

\* C4: when phase 3 finishes, every ground-truth record has a row in
\* sonarqube_results, whatever external step failed for its commit.
C4_EveryRecordHasVerdict ==
    (running = "none" /\ p3.pc = "done") =>
        \A gt \in ground_truth : VerdictsOf(sonarqube_results, gt) # {}

-----------------------------------------------------------------------------
(* The records of the ground-truth extraction *)

\* The commit processFixingCommit was called on last.
LastCommit == commitLog[p1Last.i]

\* C5: every (file, CWE) record the commit processed last gave to the store
\* is in the store: no record replaced that of another file or CWE.
C5_RecordPerFileAndCwe ==
    p1Last.i # 0 =>
        \A k \in 1..Len(p1Last.rows) :
            \E r \in ground_truth :
                /\ r.file_path = p1Last.rows[k].file_path
                /\ r.cwe_id = p1Last.rows[k].cwe_id
                /\ r.fix_commit_hash = p1Last.rows[k].fix_commit_hash

\* C6: every row written to ground_truth has a non-empty cwe_id, and a
\* security-related commit for which the patterns find no identifier and the
\* fallback answers UNKNOWN (or fails) writes no row.
C6_CweNeverEmpty ==
    /\ \A r \in ground_truth : r.cwe_id # <<>>
    /\ \A k \in 1..Len(p1Last.rows) : p1Last.rows[k].cwe_id # <<>>
    /\ (p1Last.securityRelated /\ p1Last.inferred = UNKNOWN) =>
           (p1Last.rows = <<>> /\ \A r \in ground_truth : r.fix_commit_hash # LastCommit.hash)

\* The files of a keyword-only commit went through with the fallback
\* answering UNKNOWN.
C6_Witness ==
    /\ p1Last.securityRelated /\ p1Last.inferred = UNKNOWN
    /\ p1Last.outcomes = <<"no CWE">>

\* A message without indicator: nothing but plain words.
NoIndicator(message) == \A j \in 1..Len(message) : message[j] = Word
\* A message whose only indicator is the identifier id.
OnlyIndicator(message, id) ==
    /\ Cardinality({j \in 1..Len(message) : message[j] = Text(id)}) = 1
    /\ \A j \in 1..Len(message) : message[j] \in {Word, Text(id)}

\* C7: a commit whose message has no security indicator yields no record; a
\* commit whose only indicator is one identifier CWE-n and that touches one
\* file with changed lines and a resolvable origin yields exactly one
\* record, with cwe_id CWE-n, once processFixingCommit has returned (no call
\* of the file failing).
C7_RecordsOfMessage ==
    p1Last.i # 0 =>
        /\ NoIndicator(LastCommit.message) =>
               (p1Last.rows = <<>> /\ \A r \in ground_truth : r.fix_commit_hash # LastCommit.hash)
        /\ \A id \in {Cwe79, Cwe89} :
               (/\ OnlyIndicator(LastCommit.message, id)
                /\ Len(LastCommit.files) = 1
                /\ AdditionsOf(LastCommit.files[1].fileDiff) # {}
                /\ Attributed(LastCommit.files[1].blame, LastCommit.hash) # {}
                /\ p1.pc = "commit"
                /\ \A k \in 1..Len(p1Last.outcomes) : p1Last.outcomes[k] # "error")
               => /\ Len(p1Last.rows) = 1
                  /\ p1Last.rows[1].cwe_id = id
                  /\ p1Last.rows[1].file_path = LastCommit.files[1].path
                  /\ {r \in ground_truth : r.fix_commit_hash = LastCommit.hash} = {p1Last.rows[1]}

\* "fix CWE-79" on one file was processed into its record.
C7_Witness ==
    /\ p1Last.i # 0
    /\ OnlyIndicator(LastCommit.message, Cwe79)
    /\ Len(LastCommit.files) = 1
    /\ p1Last.outcomes = <<"processed">>
    /\ Len(p1Last.rows) = 1

-----------------------------------------------------------------------------
(* The origin of each file of a commit *)

\* The rows the commit processed last wrote for its k-th file.
RowsOfFile(k) ==
    {j \in 1..Len(p1Last.rows) : p1Last.rows[j].file_path = LastCommit.files[k].path}

\* C11: the fixing commit is never the origin of a record: a row's origin is
\* one of the identifiers attributed to the file other than the fixing
\* commit's; a file whose attributed set is then empty gets no record, and
\* the files after it are still processed.
C11_FixNeverOrigin ==
    /\ \A r \in ground_truth : r.original_commit_hash # r.fix_commit_hash
    /\ (p1Last.i # 0 /\ p1Last.securityRelated) =>
           /\ p1.pc = "commit" => Len(p1Last.outcomes) = Len(LastCommit.files)
           /\ \A k \in 1..Len(p1Last.outcomes) :
                  LET f == LastCommit.files[k]
                      ids == Attributed(f.blame, LastCommit.hash)
                  IN /\ \A j \in RowsOfFile(k) : p1Last.rows[j].original_commit_hash \in ids
                     /\ (ids = {} /\ AdditionsOf(f.fileDiff) # {} /\ p1Last.outcomes[k] # "error")
                            => (p1Last.outcomes[k] = "no origin" /\ RowsOfFile(k) = {})

\* A file attributed to the fixing commit alone was dropped and the file
\* after it was processed into a record.
C11_Witness ==
    /\ p1Last.i # 0
    /\ Len(p1Last.outcomes) = 3
    /\ p1Last.outcomes[2] = "no origin"
    /\ Attributed(LastCommit.files[2].blame, LastCommit.hash) = {}
    /\ LastCommit.files[2].blame # <<>>
    /\ p1Last.outcomes[3] = "processed"
    /\ RowsOfFile(3) # {}

-----------------------------------------------------------------------------
(* The verdicts of the static-analyzer evaluation *)

\* C12: the CWE of a finding is compared with the CWE of the record in
\* normalized form in the static-analyzer phase too: no row is FP while one
\* of the CWEs detected (those its rationale lists) is, normalized, the CWE
\* of the record.
C12_NormalizedComparison ==
    \A row \in sonarqube_results :
        row.evaluation_result = "FP" =>
            \A j \in 1..Len(row.evaluation_details.args) :
                normalizeCwe(row.evaluation_details.args[j]) # normalizeCwe(row.cwe_id)

\* The issues of a scan reported for the file of a record.
IssuesOfFile(sonarResults, gt) ==
    {i \in 1..Len(sonarResults) : sonarResults[i].component = gt.file_path}

\* C13: the verdict of a record depends on the issues of its own file only:
\* a record of the commit classified last whose file has no issue is FN.
C13_OwnFileOnly ==
    \A gt \in p3.vulnEntries :
        IssuesOfFile(p3.sonarResults, gt) = {} =>
            \A row \in VerdictsOf(sonarqube_results, gt) : row.evaluation_result = "FN"

\* C15: when SONARQUBE_URL or SONARQUBE_TOKEN is not set, or sonar-scanner is
\* not installed, phase 3 over a table with records does not complete
\* normally, and writes no verdict.
C15_ConfigurationFatal ==
    (p3.pc # "idle" /\ ground_truth # {} /\ ~(p3.scanner /\ p3.sonarVars)) =>
        (p3.pc # "done" /\ sonarqube_results = {})


-----------------------------------------------------------------------------
(* Runs with the same detector outputs *)

\* The verdicts a run of phase 2 leaves, from the records and the outputs alone.
AiVerdicts ==
    {EvaluateEntry(gt, detector.ai[gt].access, detector.ai[gt].read, detector.ai[gt].completion) :
        gt \in ground_truth}

\* The verdicts a run of phase 3 leaves, from the records and the outputs alone.
SonarVerdicts ==
    {SonarVerdict(gt, allDetectedCWEs(detector.sonar[gt.original_commit_hash].issues,
                                      detector.sonar[gt.original_commit_hash].replies, 1, <<>>)) :
        gt \in ground_truth}

\* C14: with the same detector outputs, every completed run of phase 2 and of
\* phase 3 leaves the same verdicts, a function of the records and the outputs
\* alone, whether it started from an empty table or from the table an earlier
\* run left, and in whatever order the records were taken.
C14_SameOutputsSameVerdicts ==
    /\ p2.pc = "done" => ai_results = AiVerdicts
    /\ p3.pc = "done" => sonarqube_results = SonarVerdicts

\* The third run has completed over the tables the earlier runs left.
C14_Witness ==
    /\ runs = MaxRuns /\ running = "none"
    /\ p2.pc = "done" /\ p3.pc = "done"
    /\ Cardinality(ai_results) = 2 /\ Cardinality(sonarqube_results) = 2
    /\ \E row \in ai_results : row.evaluation_result = "FP"

-----------------------------------------------------------------------------
(* Failures of the calls phase 1 makes *)

\* C16: no failure of a call made for one commit or one file ends phase 1:
\* the run never stops on a rejected call, so that the loop of main reaches
\* every later commit.
C16_FailureNeverFatal == p1.pc # "failed"

-----------------------------------------------------------------------------
(* The ground truth across extractions *)

\* C17: when phase 1 is started again, every record an earlier extraction
\* wrote is still in ground_truth: the new run has produced no record yet, so
\* none may have been overwritten or removed.
C17_KeptAcrossExtractions ==
    [][(running = "none" /\ running' = "phase1") => ground_truth \subseteq ground_truth']_vars

-----------------------------------------------------------------------------
(* Verdicts and the records they belong to *)

NaturalKey(row) == <<row.vulnerability_id, row.file_path, row.cwe_id>>

\* C18: every row of ai_results and of sonarqube_results carries the natural
\* key (vulnerability_id, file_path, cwe_id) of a record of ground_truth.
C18_VerdictOwnedByRecord ==
    \A row \in ai_results \cup sonarqube_results :
        \E gt \in ground_truth : NaturalKey(gt) = NaturalKey(row)

-----------------------------------------------------------------------------
(* The identifier of a record *)

\* C19: the rows written for a file carry the number of the pull request the
\* lookup answered, and "commit-" followed by the original commit when it
\* answered none or threw; a lookup that threw leaves the file processed, with
\* one row for each class of the commit.
C19_IdentifierOfRecord ==
    \A k \in 1..Len(p1Last.lookups) :
        LET lookup == p1Last.lookups[k]
            found == lookup.called /\ lookup.ok /\ lookup.number # <<>>
        IN /\ \A j \in RowsOfFile(k) :
                  /\ lookup.called
                  /\ p1Last.rows[j].vulnerability_id =
                         IF found THEN lookup.number
                         ELSE CommitPrefix \o p1Last.rows[j].original_commit_hash
           /\ (lookup.called /\ ~lookup.ok /\ Len(p1Last.cweIds) > 0) =>
                  /\ p1Last.outcomes[k] = "processed"
                  /\ Cardinality(RowsOfFile(k)) = Len(p1Last.cweIds)

\* One file of the commit was given a pull request, the next one a lookup
\* that threw, and both were written.
C19_Witness ==
    /\ Len(p1Last.lookups) >= 2
    /\ p1Last.lookups[1].called /\ p1Last.lookups[1].number = <<"7">>
    /\ p1Last.lookups[2].called /\ ~p1Last.lookups[2].ok
    /\ \E j \in RowsOfFile(1) : p1Last.rows[j].vulnerability_id = <<"7">>
    /\ \E j \in RowsOfFile(2) :
           p1Last.rows[j].vulnerability_id = CommitPrefix \o p1Last.rows[j].original_commit_hash

-----------------------------------------------------------------------------
(* The order of the phases *)

\* C20: the scripts are started in the order phase1.js, phase2.js, phase3.js,
\* phase4.js, each only once the one before has run to its end and exited
\* with status 0; once a script exited with another status no later script is
\* started and main.js has exited with status 1.
C20_PhasesInOrder ==
    /\ Len(main.started) <= Len(Scripts)
    /\ \A k \in 1..Len(main.started) :
           /\ main.started[k] = Scripts[k]
           /\ k > 1 => (Len(main.statuses) >= k - 1 /\ main.statuses[k - 1] = 0)
    /\ \A k \in 1..Len(main.statuses) :
           main.statuses[k] # 0 =>
               (Len(main.started) = k /\ main.pc = "exited" /\ main.exit = <<1>>)
    /\ main.pc # "idle" =>
           /\ p2.pc # "idle" => (p1.pc = "done" /\ Len(main.started) >= 2)
           /\ p3.pc # "idle" => (p2.pc = "done" /\ Len(main.started) >= 3)
           /\ main.exit = <<0>> => (Len(main.statuses) = Len(Scripts) /\ p3.pc = "done")
           /\ (p1.pc = "failed" \/ p2.pc = "failed" \/ p3.pc = "failed") =>
                  (running = "none" => main.pc \in {"wait", "exited"})

\* Phase 3 ended on a failure after two phases that succeeded, and main.js
\* exited with status 1 without starting phase4.js.
C20_Witness ==
    /\ main.pc = "exited" /\ main.exit = <<1>>
    /\ main.started = SubSeq(Scripts, 1, 3)
    /\ main.statuses = <<0, 0, 1>>
    /\ p3.pc = "failed" /\ ai_results # {}

-----------------------------------------------------------------------------
(* The working tree during the detector phases *)

\* C21: while phase 2 has entries of the commit it checked out left to
\* evaluate, and when it has just evaluated one, the working tree is at that
\* commit; when phase 3 has scanned and classified the entries of a commit,
\* the working tree is at their original commit. No other revision is checked
\* out before the entries of the commit are done.
C21_SerializedOnWorkTree ==
    /\ (running = "phase2" /\ p2.pc = "loop" /\ Entries(p2) # {}) => workTree = p2.commitHash
    /\ (running = "phase2" /\ p2Last.evaluated
            /\ p2Last.gt.original_commit_hash = p2.commitHash) => workTree = p2.commitHash
    /\ (running = "phase3" /\ p3.vulnEntries # {}) =>
           \A gt \in p3.vulnEntries : workTree = gt.original_commit_hash

\* Phase 2 went through the entries of two commits; phase 3 has classified
\* the entries of one commit and now those of another.
C21_Witness ==
    /\ running = "phase3" /\ p3.vulnEntries # {}
    /\ \E a, b \in ai_results : a.original_commit_hash # b.original_commit_hash
    /\ \E row \in sonarqube_results : row.original_commit_hash # workTree
    /\ \E row \in sonarqube_results : row.original_commit_hash = workTree

-----------------------------------------------------------------------------
(* The form of a weakness class *)

\* "CWE-" followed by digits, and nothing else.
CweForm(str) ==
    /\ Len(str) >= 5
    /\ SubSeq(str, 1, 4) = CwePrefix
    /\ \A i \in 5..Len(str) : str[i] \in Digits

\* C22: every class extractSecurityInfo returned for the commit classified
\* last, and every cwe_id of ground_truth, is "CWE-" followed by digits.
C22_CweIdsAreCwe ==
    /\ \A k \in 1..Len(p1Last.cweIds) : CweForm(p1Last.cweIds[k])
    /\ \A r \in ground_truth : CweForm(r.cwe_id)

-----------------------------------------------------------------------------
(* The end of the paginated fetch *)

\* C23: the fetch asks for another page only when the page before brought at
\* least one issue, so that the requests are bounded by the issues collected
\* and the loop ends: once a response carried an empty issues list, or no
\* issues field, or the issues collected reached the total, no further page
\* is requested.
C23_FetchStops ==
    /\ fetch.requests <= Len(fetch.issues) + 1
    /\ (fetch.requests > 0 /\ (~fetch.last.hasIssues \/ fetch.last.issues = <<>>
                                  \/ Len(fetch.issues) >= fetch.total)) => fetch.pc = "done"

=========================================================================
